---------------------------- MODULE Spec2Model ----------------------------
(***************************************************************************)
(* A model of wgpu_glyph's render pipeline (src/src/pipeline.rs):          *)
(*                                                                         *)
(*   - Pipeline: the struct's eight fields, the operations new, cache,     *)
(*     increase_cache_size, draw and redraw, the commands they record on   *)
(*     the caller's command encoder, and the execution of those commands   *)
(*     on the GPU timeline (specification Spec);                           *)
(*   - impl From<glyph_brush::GlyphVertex> for Instance: the conversion    *)
(*     of a glyph vertex into an Instance, with its clipping against the   *)
(*     bounds (specification SpecConv).                                    *)
(*                                                                         *)
(* f32 values are modelled as exact rationals [n, d] in lowest terms       *)
(* (rounding is not modelled); a denominator of 0 stands for the IEEE      *)
(* values a division by zero produces (+inf, -inf, NaN).                   *)
(***************************************************************************)
EXTENDS Integers, Sequences

VARIABLES
    \* ---- struct Pipeline (pipeline.rs:10-19)
    transform,          \* wgpu::Buffer: the uniform buffer's handle
    sampler,            \* wgpu::Sampler
    cache,              \* Rc<Cache>: the current texture cache
    uniform_layout,     \* wgpu::BindGroupLayout
    uniforms,           \* wgpu::BindGroup
    instances,          \* wgpu::Buffer: the instance buffer's handle
    pipeline,           \* wgpu::RenderPipeline
    current_instances,  \* u32
    \* ---- the device and the caller
    next_id,            \* the id the device gives the next resource it creates
    held,               \* the Rc<Cache> handle another party got from cache()
    encoder,            \* the commands recorded on the caller's encoder
    transform_mem,      \* GPU memory of the transform buffer
    instances_mem,      \* GPU memory of the instance buffer (segments)
    executed,           \* the render passes the submission just made executed
    last_draw,          \* history: the arguments of the most recent draw
    op,                 \* history: the operation that took the last step
    \* ---- the conversion (SpecConv)
    vertex,             \* the glyph_brush::GlyphVertex given
    instance,           \* the Instance converted from it
    reconverted,        \* the Instance converted from the fed-back output
    stage               \* "input", "converted" or "reconverted" ("none"
                        \* under Spec, which converts nothing)

pvars == <<transform, sampler, cache, uniform_layout, uniforms, instances,
           pipeline, current_instances>>
evars == <<next_id, held, encoder, transform_mem, instances_mem, executed,
           last_draw, op>>
cvars == <<vertex, instance, reconverted, stage>>
vars == <<pvars, evars, cvars>>

--------------------------------------------------------------------------
(* Bounds of the model *)

MaxResizes == 1         \* calls of increase_cache_size
MaxCommands == 6        \* commands one encoder holds
MaxPixel == 3           \* pixel coordinates 0 .. MaxPixel

(* Program constants *)

Instance_MAX == 50000
SizeOfInstance == 52
TransformBytes == 64

(* The inputs the callers give *)
FilterModes == {"Linear"}
InitialSize == <<256, 256>>
CacheSizes == {<<512, 256>>}
ConstructionIds == 7
Targets == {"frame"}
IDENTITY_MATRIX == "identity"
Transforms == {IDENTITY_MATRIX, "projection"}
\* the instance slices given to draw: tag names the contents, len the length
Slices == { [tag |-> "one", len |-> 1],
            [tag |-> "full", len |-> Instance_MAX],
            [tag |-> "over", len |-> Instance_MAX + 1] }
NoSlice == [tag |-> "none", len |-> 0]

--------------------------------------------------------------------------
(* The device's resources *)

\* Cache::new(device, width, height): a texture and a view of it
Cache_new(id, width, height) ==
    [id |-> id, width |-> width, height |-> height, view |-> id]

\* Pipeline::create_uniforms
create_uniforms(id, layout, transform_buf, samp, view) ==
    [id |-> id, layout |-> layout.id, binding0 |-> transform_buf.id,
     binding1 |-> samp.id, binding2 |-> view]

--------------------------------------------------------------------------
(* Pipeline::new: the state after construction *)

Pipeline_new(filter_mode, cache_width, cache_height) ==
    /\ transform = [id |-> 1, size |-> TransformBytes]
    /\ transform_mem = IDENTITY_MATRIX
    /\ sampler = [id |-> 2, address_mode |-> "ClampToEdge",
                  filter |-> filter_mode, max_anisotropy |-> 0,
                  compare_function |-> "Always",
                  border_color |-> "TransparentBlack"]
    /\ cache = Cache_new(3, cache_width, cache_height)
    /\ uniform_layout = [id |-> 4,
                         bindings |-> <<"UniformBuffer", "Sampler",
                                        "SampledTexture">>]
    /\ uniforms = create_uniforms(5, uniform_layout, transform, sampler,
                                  cache.view)
    /\ instances = [id |-> 6, size |-> SizeOfInstance * Instance_MAX]
    /\ instances_mem = <<>>
    /\ pipeline = [id |-> 7, layout |-> 4, topology |-> "TriangleStrip",
                   step_mode |-> "Instance", stride |-> SizeOfInstance]
    /\ current_instances = 0
    /\ next_id = ConstructionIds + 1


--------------------------------------------------------------------------
(* Pipeline::cache: the other party (the rasterizer) takes a shared handle *)
(* to the cache, in place of the one it may hold                          *)

Pipeline_cache ==
    /\ held # {cache}
    /\ held' = {cache}
    /\ op' = "cache"
    /\ executed' = <<>>
    /\ UNCHANGED <<pvars, next_id, encoder, transform_mem, instances_mem,
                   last_draw, cvars>>

\* the holder of a handle returned by cache() drops it
DropHandle ==
    /\ \E h \in held : held' = held \ {h}
    /\ op' = "drop_handle"
    /\ executed' = <<>>
    /\ UNCHANGED <<pvars, next_id, encoder, transform_mem, instances_mem,
                   last_draw, cvars>>

(* Pipeline::increase_cache_size *)

\* as increase_cache_size, but the bind group is not rebuilt
increase_cache_size_stale(width, height) ==
    /\ next_id + 1 <= ConstructionIds + 2 * MaxResizes
    /\ cache' = Cache_new(next_id, width, height)
    /\ next_id' = next_id + 2
    /\ op' = "increase_cache_size"
    /\ UNCHANGED <<transform, sampler, uniform_layout, uniforms, instances,
                   pipeline, current_instances, held, encoder,
                   transform_mem, instances_mem, last_draw, cvars>>
    /\ executed' = <<>>

\* as increase_cache_size, but the recorded instance count is reset
increase_cache_size_reset(width, height) ==
    /\ next_id + 1 <= ConstructionIds + 2 * MaxResizes
    /\ cache' = Cache_new(next_id, width, height)
    /\ uniforms' = create_uniforms(next_id + 1, uniform_layout, transform,
                                   sampler, cache'.view)
    /\ next_id' = next_id + 2
    /\ current_instances' = 0
    /\ op' = "increase_cache_size"
    /\ UNCHANGED <<transform, sampler, uniform_layout, instances, pipeline,
                   held, encoder, transform_mem, instances_mem, last_draw,
                   cvars>>
    /\ executed' = <<>>

increase_cache_size(width, height) ==
    /\ next_id + 1 <= ConstructionIds + 2 * MaxResizes
    /\ cache' = Cache_new(next_id, width, height)
    /\ uniforms' = create_uniforms(next_id + 1, uniform_layout, transform,
                                   sampler, cache'.view)
    /\ next_id' = next_id + 2
    /\ op' = "increase_cache_size"
    /\ UNCHANGED <<transform, sampler, uniform_layout, instances, pipeline,
                   current_instances, held, encoder, transform_mem,
                   instances_mem, last_draw, cvars>>
    /\ executed' = <<>>

--------------------------------------------------------------------------
(* The commands recorded on the encoder *)

\* encoder.copy_buffer_to_buffer(src, 0, dst, 0, size); the staging buffer
\* src was created mapped and filled with data
copy_buffer_to_buffer(data, dst, size) ==
    [cmd |-> "copy_buffer_to_buffer", src |-> data, src_offset |-> 0,
     dst |-> dst.id, dst_offset |-> 0, size |-> size]

\* the render pass redraw records, with current_instances = count;
\* recorded_for is history: the cache and the draw arguments current when
\* the pass was recorded
render_pass(target, count, drawn) ==
    [cmd |-> "render_pass", attachment |-> target, load_op |-> "Load",
     store_op |-> "Store", pipeline |-> pipeline.id, bind_group |-> uniforms,
     vertex_buffer |-> instances.id, vertices |-> <<0, 4>>,
     instance_range |-> <<0, count>>,
     recorded_for |-> [cache |-> cache, transform |-> drawn.transform,
                       slice |-> drawn.slice]]

(* Pipeline::draw: the two copies are recorded, current_instances is set, *)
(* and redraw records its pass                                           *)

draw(transform_arg, slice, target) ==
    /\ Len(encoder) + 3 <= MaxCommands
    /\ current_instances' = slice.len
    /\ last_draw' = [transform |-> transform_arg, slice |-> slice]
    /\ encoder' =
         encoder
         \o << copy_buffer_to_buffer(transform_arg, transform,
                                     TransformBytes),
               copy_buffer_to_buffer(slice, instances,
                                     SizeOfInstance * slice.len) >>
         \o << render_pass(target, current_instances', last_draw') >>
    /\ op' = "draw"
    /\ UNCHANGED <<transform, sampler, cache, uniform_layout, uniforms,
                   instances, pipeline, next_id, held, transform_mem,
                   instances_mem, cvars>>
    /\ executed' = <<>>

(* Pipeline::redraw *)

\* as redraw, but the pass clears its target
redraw_clear(target) ==
    /\ Len(encoder) + 1 <= MaxCommands
    /\ encoder' = Append(encoder,
                         [render_pass(target, current_instances, last_draw)
                              EXCEPT !.load_op = "Clear"])
    /\ op' = "redraw"
    /\ executed' = <<>>
    /\ UNCHANGED <<pvars, next_id, held, transform_mem, instances_mem,
                   last_draw, cvars>>

redraw(target) ==
    /\ Len(encoder) + 1 <= MaxCommands
    /\ encoder' = Append(encoder,
                         render_pass(target, current_instances, last_draw))
    /\ op' = "redraw"
    /\ executed' = <<>>
    /\ UNCHANGED <<pvars, next_id, held, transform_mem, instances_mem,
                   last_draw, cvars>>

--------------------------------------------------------------------------
(* The GPU timeline: the caller submits the encoder, its commands run in  *)
(* the order they were recorded.  The instance buffer's memory is a       *)
(* sequence of segments [upto, tag] with increasing upto: instances up to *)
(* index upto (from the previous segment's) are those of slice tag.       *)

WriteInstances(mem, tag, n) ==
    IF n = 0 THEN mem
    ELSE <<[upto |-> n, tag |-> tag]>>
             \o SelectSeq(mem, LAMBDA s : s.upto > n)

RECURSIVE ReadInstances(_, _)
ReadInstances(mem, n) ==
    IF mem = <<>> \/ n = 0 THEN <<>>
    ELSE IF Head(mem).upto >= n
         THEN <<[upto |-> n, tag |-> Head(mem).tag]>>
         ELSE <<Head(mem)>> \o ReadInstances(Tail(mem), n)

\* one copy_buffer_to_buffer; a copy past the end of its destination is
\* outside the GPU interface's contract: it is either refused or cut at
\* the buffer's end (overflow names which)
ExecuteCopy(c, gpu, overflow) ==
    IF c.dst = transform.id
    THEN [gpu EXCEPT !.transform = c.src]
    ELSE IF c.dst_offset + c.size <= instances.size
         THEN [gpu EXCEPT !.instances =
                   WriteInstances(@, c.src.tag, c.size \div SizeOfInstance)]
         ELSE IF overflow = "refused" THEN gpu
              ELSE [gpu EXCEPT !.instances =
                        WriteInstances(@, c.src.tag,
                                       instances.size \div SizeOfInstance)]

\* one render pass: what it composites onto its target
ExecutePass(c, gpu) ==
    [gpu EXCEPT !.frames = Append(@,
        [attachment |-> c.attachment, load_op |-> c.load_op,
         atlas |-> c.bind_group.binding2,
         transform |-> IF c.bind_group.binding0 = transform.id
                       THEN gpu.transform ELSE "unbound",
         drawn |-> IF c.vertex_buffer = instances.id
                   THEN ReadInstances(gpu.instances,
                            c.instance_range[2] - c.instance_range[1])
                   ELSE <<>>,
         vertices |-> c.vertices[2] - c.vertices[1],
         recorded_for |-> c.recorded_for])]

RECURSIVE Execute(_, _, _)
Execute(cmds, gpu, overflow) ==
    IF cmds = <<>> THEN gpu
    ELSE Execute(Tail(cmds),
                 IF Head(cmds).cmd = "copy_buffer_to_buffer"
                 THEN ExecuteCopy(Head(cmds), gpu, overflow)
                 ELSE ExecutePass(Head(cmds), gpu),
                 overflow)

Submit ==
    /\ encoder # <<>>
    /\ \E overflow \in {"refused", "cut"} :
         LET gpu == Execute(encoder,
                            [transform |-> transform_mem,
                             instances |-> instances_mem,
                             frames |-> <<>>], overflow)
         IN  /\ transform_mem' = gpu.transform
             /\ instances_mem' = gpu.instances
             /\ executed' = gpu.frames
    /\ encoder' = <<>>
    /\ op' = "submit"
    /\ UNCHANGED <<pvars, next_id, held, last_draw, cvars>>

--------------------------------------------------------------------------
(* The specification of the pipeline *)

NoVertex == [none |-> TRUE]

\* the pipeline constructed, nothing recorded yet
Constructed ==
    /\ \E filter_mode \in FilterModes :
         Pipeline_new(filter_mode, InitialSize[1], InitialSize[2])
    /\ held = {}
    /\ encoder = <<>>
    /\ executed = <<>>
    /\ last_draw = [transform |-> IDENTITY_MATRIX, slice |-> NoSlice]
    /\ op = "new"

Init ==
    /\ Constructed
    /\ vertex = NoVertex
    /\ instance = NoVertex
    /\ reconverted = NoVertex
    /\ stage = "none"

Next ==
    \/ Pipeline_cache
    \/ DropHandle
    \/ \E size \in CacheSizes : increase_cache_size(size[1], size[2])
    \/ \E t \in Transforms, s \in Slices, target \in Targets :
         draw(t, s, target)
    \/ \E target \in Targets : redraw(target)
    \/ Submit

Spec == Init /\ [][Next]_vars


--------------------------------------------------------------------------
(* f32 arithmetic, on exact rationals [n, d] with d >= 0 in lowest terms; *)
(* d = 0 is +inf (n = 1), -inf (n = -1) or NaN (n = 0)                    *)

Abs(i) == IF i < 0 THEN -i ELSE i
Sign(i) == IF i < 0 THEN -1 ELSE IF i > 0 THEN 1 ELSE 0

RECURSIVE GCD(_, _)
GCD(a, b) == IF b = 0 THEN a ELSE GCD(b, a % b)

Rat(n, d) ==
    IF d = 0 THEN [n |-> Sign(n), d |-> 0]
    ELSE LET g == GCD(Abs(n), Abs(d))
         IN  [n |-> (Sign(d) * n) \div g, d |-> Abs(d) \div g]

F(i) == [n |-> i, d |-> 1]          \* an integer as f32
NaN == [n |-> 0, d |-> 0]
IsNaN(a) == a.d = 0 /\ a.n = 0

Add(a, b) ==
    IF a.d = 0 /\ b.d = 0 THEN (IF a.n = b.n THEN a ELSE NaN)
    ELSE Rat(a.n * b.d + b.n * a.d, a.d * b.d)
Neg(a) == [n |-> -a.n, d |-> a.d]
Sub(a, b) == Add(a, Neg(b))
Mul(a, b) == Rat(a.n * b.n, a.d * b.d)
Div(a, b) ==
    IF b.n < 0 THEN Rat(-(a.n * b.d), -(a.d * b.n))
    ELSE Rat(a.n * b.d, a.d * b.n)
Lt(a, b) ==
    /\ ~IsNaN(a)
    /\ ~IsNaN(b)
    /\ IF a.d = 0 /\ b.d = 0 THEN a.n < b.n ELSE a.n * b.d < b.n * a.d
Gt(a, b) == Lt(b, a)
Le(a, b) == Lt(a, b) \/ (a = b /\ ~IsNaN(a))

--------------------------------------------------------------------------
(* rusttype's point and Rect *)

point(x, y) == [x |-> x, y |-> y]
Rect(min, max) == [min |-> min, max |-> max]
width(r) == Sub(r.max.x, r.min.x)
height(r) == Sub(r.max.y, r.min.y)

--------------------------------------------------------------------------
(* impl From<glyph_brush::GlyphVertex> for Instance *)

\* as ToGl, but the half is taken off after the doubling
ToGl_late_half(p, screen) == Sub(Mul(F(2), Div(p, screen)), Rat(1, 2))

\* 2.0 * (p / screen - 0.5)
ToGl(p, screen) == Mul(F(2), Sub(Div(p, screen), Rat(1, 2)))

gl_bounds_of(v) ==
    Rect(point(ToGl(v.bounds.min.x, v.screen_dimensions[1]),
               ToGl(v.bounds.min.y, v.screen_dimensions[2])),
         point(ToGl(v.bounds.max.x, v.screen_dimensions[1]),
               ToGl(v.bounds.max.y, v.screen_dimensions[2])))

gl_rect_of(v) ==
    Rect(point(ToGl(v.pixel_coords.min.x, v.screen_dimensions[1]),
               ToGl(v.pixel_coords.min.y, v.screen_dimensions[2])),
         point(ToGl(v.pixel_coords.max.x, v.screen_dimensions[1]),
               ToGl(v.pixel_coords.max.y, v.screen_dimensions[2])))

\* the four clips; s = [gl_rect, tex_coords], the two locals they update

\* as ClipMaxX, but the edge is moved onto the bounds' other edge
ClipMaxX_wrong_edge(s, gl_bounds) ==
    IF Gt(s.gl_rect.max.x, gl_bounds.max.x)
    THEN LET old_width == width(s.gl_rect)
             gl_rect == [s.gl_rect EXCEPT !.max.x = gl_bounds.min.x]
         IN  [gl_rect |-> gl_rect,
              tex_coords |-> [s.tex_coords EXCEPT !.max.x =
                  Add(s.tex_coords.min.x,
                      Div(Mul(width(s.tex_coords), width(gl_rect)),
                          old_width))]]
    ELSE s

ClipMaxX(s, gl_bounds) ==
    IF Gt(s.gl_rect.max.x, gl_bounds.max.x)
    THEN LET old_width == width(s.gl_rect)
             gl_rect == [s.gl_rect EXCEPT !.max.x = gl_bounds.max.x]
         IN  [gl_rect |-> gl_rect,
              tex_coords |-> [s.tex_coords EXCEPT !.max.x =
                  Add(s.tex_coords.min.x,
                      Div(Mul(width(s.tex_coords), width(gl_rect)),
                          old_width))]]
    ELSE s

\* as ClipMinX, but with the ratio of the widths upside down
ClipMinX_inverted(s, gl_bounds) ==
    IF Lt(s.gl_rect.min.x, gl_bounds.min.x)
    THEN LET old_width == width(s.gl_rect)
             gl_rect == [s.gl_rect EXCEPT !.min.x = gl_bounds.min.x]
         IN  [gl_rect |-> gl_rect,
              tex_coords |-> [s.tex_coords EXCEPT !.min.x =
                  Sub(s.tex_coords.max.x,
                      Div(Mul(width(s.tex_coords), old_width),
                          width(gl_rect)))]]
    ELSE s

ClipMinX(s, gl_bounds) ==
    IF Lt(s.gl_rect.min.x, gl_bounds.min.x)
    THEN LET old_width == width(s.gl_rect)
             gl_rect == [s.gl_rect EXCEPT !.min.x = gl_bounds.min.x]
         IN  [gl_rect |-> gl_rect,
              tex_coords |-> [s.tex_coords EXCEPT !.min.x =
                  Sub(s.tex_coords.max.x,
                      Div(Mul(width(s.tex_coords), width(gl_rect)),
                          old_width))]]
    ELSE s

\* as ClipMaxY, but scaling the texture rectangle's width
ClipMaxY_width(s, gl_bounds) ==
    IF Gt(s.gl_rect.max.y, gl_bounds.max.y)
    THEN LET old_height == height(s.gl_rect)
             gl_rect == [s.gl_rect EXCEPT !.max.y = gl_bounds.max.y]
         IN  [gl_rect |-> gl_rect,
              tex_coords |-> [s.tex_coords EXCEPT !.max.y =
                  Add(s.tex_coords.min.y,
                      Div(Mul(width(s.tex_coords), height(gl_rect)),
                          old_height))]]
    ELSE s

ClipMaxY(s, gl_bounds) ==
    IF Gt(s.gl_rect.max.y, gl_bounds.max.y)
    THEN LET old_height == height(s.gl_rect)
             gl_rect == [s.gl_rect EXCEPT !.max.y = gl_bounds.max.y]
         IN  [gl_rect |-> gl_rect,
              tex_coords |-> [s.tex_coords EXCEPT !.max.y =
                  Add(s.tex_coords.min.y,
                      Div(Mul(height(s.tex_coords), height(gl_rect)),
                          old_height))]]
    ELSE s

ClipMinY(s, gl_bounds) ==
    IF Lt(s.gl_rect.min.y, gl_bounds.min.y)
    THEN LET old_height == height(s.gl_rect)
             gl_rect == [s.gl_rect EXCEPT !.min.y = gl_bounds.min.y]
         IN  [gl_rect |-> gl_rect,
              tex_coords |-> [s.tex_coords EXCEPT !.min.y =
                  Sub(s.tex_coords.max.y,
                      Div(Mul(height(s.tex_coords), height(gl_rect)),
                          old_height))]]
    ELSE s

\* as Emit, but without the y flip of the quad
Emit_no_flip(gl_rect, tex_coords, color, z) ==
    [left_top |-> <<gl_rect.min.x, gl_rect.min.y, z>>,
     right_bottom |-> <<gl_rect.max.x, gl_rect.max.y>>,
     tex_left_top |-> <<tex_coords.min.x, tex_coords.max.y>>,
     tex_right_bottom |-> <<tex_coords.max.x, tex_coords.min.y>>,
     color |-> color]

\* the Instance emitted from the clipped locals
Emit(gl_rect, tex_coords, color, z) ==
    [left_top |-> <<gl_rect.min.x, gl_rect.max.y, z>>,
     right_bottom |-> <<gl_rect.max.x, gl_rect.min.y>>,
     tex_left_top |-> <<tex_coords.min.x, tex_coords.max.y>>,
     tex_right_bottom |-> <<tex_coords.max.x, tex_coords.min.y>>,
     color |-> color]

\* the locals after the four clips
Clipped(v) ==
    LET gl_bounds == gl_bounds_of(v)
        s0 == [gl_rect |-> gl_rect_of(v), tex_coords |-> v.tex_coords]
    IN  ClipMinY(ClipMaxY(ClipMinX(ClipMaxX(s0, gl_bounds), gl_bounds),
                          gl_bounds), gl_bounds)

Instance_from(v) ==
    LET s == Clipped(v)
    IN  Emit(s.gl_rect, s.tex_coords, v.color, v.z)


--------------------------------------------------------------------------
(* The specification of the conversion: a vertex is drawn from the        *)
(* bounded sets, converted, and the output is fed back and converted      *)
(* again.                                                                 *)

Coords == 0 .. MaxPixel
ScreenDimensions == <<4, 3>>
\* the texture rectangle, colour and depth of the glyphs given
Glyphs ==
    { [tex |-> Rect(point(Rat(0, 1), Rat(1, 4)), point(Rat(1, 2), Rat(1, 1))),
       color |-> <<F(0), F(0), F(0), F(0)>>, z |-> F(0)],
      [tex |-> Rect(point(Rat(1, 4), Rat(0, 1)), point(Rat(1, 1), Rat(3, 4))),
       color |-> <<F(1), Rat(1, 2), F(0), F(1)>>, z |-> Rat(1, 2)] }

\* the pixel coordinate whose conversion is the NDC value g
ToPixel(g, screen) == Mul(Add(Div(g, F(2)), Rat(1, 2)), screen)

\* the conversion's output as its next input: the clipped rectangle as the
\* quad, the adjusted texture coordinates as the texture rectangle
FeedBack(i, v) ==
    [v EXCEPT
        !.tex_coords = Rect(point(i.tex_left_top[1], i.tex_right_bottom[2]),
                            point(i.tex_right_bottom[1], i.tex_left_top[2])),
        !.pixel_coords =
            Rect(point(ToPixel(i.left_top[1], v.screen_dimensions[1]),
                       ToPixel(i.right_bottom[2], v.screen_dimensions[2])),
                 point(ToPixel(i.right_bottom[1], v.screen_dimensions[1]),
                       ToPixel(i.left_top[2], v.screen_dimensions[2])))]

InitConv ==
    /\ Constructed
    /\ \E px0, px1, py0, py1, bx0, bx1, by0, by1 \in Coords :
         /\ px0 <= px1 /\ py0 <= py1 /\ bx0 <= bx1 /\ by0 <= by1
         /\ \E g \in Glyphs :
              vertex = [tex_coords |-> g.tex,
                        pixel_coords |-> Rect(point(F(px0), F(py0)),
                                              point(F(px1), F(py1))),
                        bounds |-> Rect(point(F(bx0), F(by0)),
                                        point(F(bx1), F(by1))),
                        screen_dimensions |-> <<F(ScreenDimensions[1]),
                                                F(ScreenDimensions[2])>>,
                        color |-> g.color,
                        z |-> g.z]
    /\ instance = NoVertex
    /\ reconverted = NoVertex
    /\ stage = "input"

Convert ==
    /\ stage = "input"
    /\ instance' = Instance_from(vertex)
    /\ stage' = "converted"
    /\ UNCHANGED <<pvars, evars, vertex, reconverted>>

Reconvert ==
    /\ stage = "converted"
    /\ reconverted' = Instance_from(FeedBack(instance, vertex))
    /\ stage' = "reconverted"
    /\ UNCHANGED <<pvars, evars, vertex, instance>>

NextConv == Convert \/ Reconvert

SpecConv == InitConv /\ [][NextConv]_vars


--------------------------------------------------------------------------
(* Claims about the pipeline (specification Spec)                         *)

Passes(cmds) == { i \in 1 .. Len(cmds) : cmds[i].cmd = "render_pass" }
LastCmd == encoder[Len(encoder)]

\* C1: the bind group always references the view of the current cache, so
\* every render pass samples the atlas that was current when the pass was
\* recorded, also while another party still holds a handle to an older one
C1_BindGroupReferencesCurrentCache ==
    /\ uniforms.binding2 = cache.view
    /\ \A i \in Passes(encoder) :
         encoder[i].bind_group.binding2 = encoder[i].recorded_for.cache.view
    /\ \A i \in 1 .. Len(executed) :
         executed[i].atlas = executed[i].recorded_for.cache.view

\* a pass recorded after a resize, while the old cache is still held
C1_Witness ==
    /\ op \in {"draw", "redraw"}
    /\ \E h \in held : h.id # cache.id
    /\ LastCmd.cmd = "render_pass"
    /\ LastCmd.recorded_for.cache = cache
    /\ \E i \in Passes(encoder) : encoder[i].recorded_for.cache # cache

\* C2: no recorded copy writes past the 50,000-instance capacity of the
\* instance buffer and no recorded instance count exceeds 50,000
C2_WithinCapacity ==
    /\ current_instances <= Instance_MAX
    /\ \A i \in 1 .. Len(encoder) :
         /\ (encoder[i].cmd = "copy_buffer_to_buffer"
                /\ encoder[i].dst = instances.id)
              => encoder[i].dst_offset + encoder[i].size <= instances.size
         /\ encoder[i].cmd = "render_pass"
              => encoder[i].instance_range[2] <= Instance_MAX

\* C3: a redraw changes no pipeline state and records one render pass:
\* load on the target, the pipeline's bind group and instance buffer, 4
\* vertices per instance, as many instances as the most recent draw gave
\* (0 before any draw); a redraw directly after a redraw records the same
\* pass again
C3_RedrawPure ==
    [][op' = "redraw" =>
        /\ UNCHANGED <<pvars, transform_mem, instances_mem>>
        /\ Len(encoder') = Len(encoder) + 1
        /\ SubSeq(encoder', 1, Len(encoder)) = encoder
        /\ LET c == encoder'[Len(encoder')]
           IN  /\ c.cmd = "render_pass"
               /\ c.load_op = "Load"
               /\ c.pipeline = pipeline.id
               /\ c.bind_group = uniforms
               /\ c.vertex_buffer = instances.id
               /\ c.vertices = <<0, 4>>
               /\ c.instance_range = <<0, last_draw.slice.len>>
               /\ op = "redraw" =>
                    [c EXCEPT !.attachment = 0]
                        = [LastCmd EXCEPT !.attachment = 0]
    ]_vars

\* three passes in a row: two redraws after a draw of some instances
C3_Witness ==
    /\ op = "redraw"
    /\ Len(encoder) >= 5
    /\ current_instances > 0
    /\ \A i \in Len(encoder) - 2 .. Len(encoder) :
         encoder[i].cmd = "render_pass"
    /\ encoder[Len(encoder) - 1] = LastCmd

\* C4: increase_cache_size replaces the cache and the bind group and
\* leaves the pipeline object, the bind-group layout, the sampler, the
\* transform buffer, the instance buffer, their contents and
\* current_instances as they were
C4_ResizeReplacesOnlyCacheAndBindGroup ==
    [][op' = "increase_cache_size" =>
        /\ UNCHANGED <<pipeline, uniform_layout, sampler, transform,
                       instances, current_instances, transform_mem,
                       instances_mem>>
        /\ cache'.id # cache.id
        /\ uniforms'.id # uniforms.id
        /\ uniforms'.binding2 = cache'.view
        /\ uniforms'.layout = uniform_layout.id
        /\ uniforms'.binding0 = transform.id
        /\ uniforms'.binding1 = sampler.id
    ]_vars

\* a resize after instances and a transform were uploaded
C4_Witness ==
    /\ op = "increase_cache_size"
    /\ current_instances > 0
    /\ instances_mem # <<>>
    /\ transform_mem # IDENTITY_MATRIX

\* what a pass drawing slice reads from the instance buffer
InstancesOf(slice) ==
    IF slice.len = 0 THEN <<>>
    ELSE <<[upto |-> slice.len, tag |-> slice.tag]>>

\* C9: draw records the transform copy, the instance copy (all instances,
\* at offset 0) and then one render pass, with current_instances set to
\* the slice's length; executed, that pass and every later redraw draw
\* exactly the instances and the transform of that draw
C9_DrawUploadsThenDraws ==
    /\ op = "draw" =>
         /\ Len(encoder) >= 3
         /\ current_instances = last_draw.slice.len
         /\ SubSeq(encoder, Len(encoder) - 2, Len(encoder)) =
              << [cmd |-> "copy_buffer_to_buffer",
                  src |-> last_draw.transform, src_offset |-> 0,
                  dst |-> transform.id, dst_offset |-> 0,
                  size |-> TransformBytes],
                 [cmd |-> "copy_buffer_to_buffer",
                  src |-> last_draw.slice, src_offset |-> 0,
                  dst |-> instances.id, dst_offset |-> 0,
                  size |-> SizeOfInstance * last_draw.slice.len],
                 [LastCmd EXCEPT !.instance_range =
                                     <<0, last_draw.slice.len>>] >>
         /\ LastCmd.cmd = "render_pass"
    /\ \A i \in 1 .. Len(executed) :
         /\ executed[i].transform = executed[i].recorded_for.transform
         /\ executed[i].drawn = InstancesOf(executed[i].recorded_for.slice)

\* the same, for the passes that draw no more than the instance buffer holds
C9_WithinCapacity ==
    \A i \in 1 .. Len(executed) :
        executed[i].recorded_for.slice.len <= Instance_MAX =>
            /\ executed[i].transform = executed[i].recorded_for.transform
            /\ executed[i].drawn = InstancesOf(executed[i].recorded_for.slice)


--------------------------------------------------------------------------
(* Claims about the conversion (specification SpecConv)                   *)

Converted == stage = "converted"

\* normalized device coordinates: 2 * (pixel / screen_dim) - 1
Ndc(p, dim) == Sub(Mul(F(2), Div(p, dim)), F(1))
NdcRect(r, dims) ==
    Rect(point(Ndc(r.min.x, dims[1]), Ndc(r.min.y, dims[2])),
         point(Ndc(r.max.x, dims[1]), Ndc(r.max.y, dims[2])))
Quad == NdcRect(vertex.pixel_coords, vertex.screen_dimensions)
Bounds == NdcRect(vertex.bounds, vertex.screen_dimensions)
Tex == vertex.tex_coords

\* the rectangles of the emitted Instance, the y flip undone
OutQuad ==
    Rect(point(instance.left_top[1], instance.right_bottom[2]),
         point(instance.right_bottom[1], instance.left_top[2]))
OutTex ==
    Rect(point(instance.tex_left_top[1], instance.tex_right_bottom[2]),
         point(instance.tex_right_bottom[1], instance.tex_left_top[2]))

\* which edges of quad q exceed the bounds b
OverMaxX(q, b) == Gt(q.max.x, b.max.x)
OverMinX(q, b) == Lt(q.min.x, b.min.x)
OverMaxY(q, b) == Gt(q.max.y, b.max.y)
OverMinY(q, b) == Lt(q.min.y, b.min.y)
EdgesOver(q, b) ==
    (IF OverMaxX(q, b) THEN 1 ELSE 0) + (IF OverMinX(q, b) THEN 1 ELSE 0)
        + (IF OverMaxY(q, b) THEN 1 ELSE 0)
        + (IF OverMinY(q, b) THEN 1 ELSE 0)
Positive(a) == Gt(a, F(0))

\* C5: a quad no edge of which exceeds the bounds is converted without
\* clipping: the corners are the NDC conversion of its pixel rectangle,
\* the texture rectangle, the colour and z are those given
C5_InsideIsUnclipped ==
    Converted =>
        LET q == Quad
        IN  EdgesOver(q, Bounds) = 0 =>
                instance =
                    [left_top |-> <<q.min.x, q.max.y, vertex.z>>,
                     right_bottom |-> <<q.max.x, q.min.y>>,
                     tex_left_top |-> <<Tex.min.x, Tex.max.y>>,
                     tex_right_bottom |-> <<Tex.max.x, Tex.min.y>>,
                     color |-> vertex.color]

\* a glyph exactly filling its bounds, converted
C5_Witness ==
    /\ Converted
    /\ vertex.pixel_coords = vertex.bounds
    /\ Positive(width(Quad))
    /\ Positive(height(Quad))
    /\ vertex.z # F(0)

\* C6: clipped on exactly one edge (of a quad with an extent on that
\* axis), the texture extent keeps the fraction the geometric extent
\* keeps, the texture edge of the clipped side moves, and the other three
\* geometric edges and texture edges stay
C6_OneEdgeKeepsAspect ==
    Converted =>
        LET q == Quad
            b == Bounds
            o == OutQuad
            t == OutTex
            SameWidthFraction ==
                Positive(width(q)) =>
                    Div(width(t), width(Tex)) = Div(width(o), width(q))
            SameHeightFraction ==
                Positive(height(q)) =>
                    Div(height(t), height(Tex)) = Div(height(o), height(q))
        IN  EdgesOver(q, b) = 1 =>
                /\ OverMaxX(q, b) =>
                     /\ SameWidthFraction
                     /\ o = [q EXCEPT !.max.x = b.max.x]
                     /\ t = [Tex EXCEPT !.max.x = t.max.x]
                /\ OverMinX(q, b) =>
                     /\ SameWidthFraction
                     /\ o = [q EXCEPT !.min.x = b.min.x]
                     /\ t = [Tex EXCEPT !.min.x = t.min.x]
                /\ OverMaxY(q, b) =>
                     /\ SameHeightFraction
                     /\ o = [q EXCEPT !.max.y = b.max.y]
                     /\ t = [Tex EXCEPT !.max.y = t.max.y]
                /\ OverMinY(q, b) =>
                     /\ SameHeightFraction
                     /\ o = [q EXCEPT !.min.y = b.min.y]
                     /\ t = [Tex EXCEPT !.min.y = t.min.y]

\* a quad cut at its max-y edge only, part of it kept
C6_Witness ==
    /\ Converted
    /\ EdgesOver(Quad, Bounds) = 1
    /\ OverMaxY(Quad, Bounds)
    /\ Positive(height(OutQuad))
    /\ OutTex.max.y # Tex.max.y

\* C7: converting the conversion's own output again, with the bounds,
\* the screen dimensions, the colour and z as they were, gives that output
C7_ClippingIdempotent ==
    stage = "reconverted" => reconverted = instance

\* a quad clipped on both axes, converted twice
C7_Witness ==
    /\ stage = "reconverted"
    /\ OverMaxX(Quad, Bounds)
    /\ OverMinY(Quad, Bounds)
    /\ Positive(width(OutQuad))
    /\ Positive(height(OutQuad))

\* quad q lies outside the bounds b on an axis
BeyondMaxX(q, b) == Le(b.max.x, q.min.x)
BeforeMinX(q, b) == Le(q.max.x, b.min.x)
BeyondMaxY(q, b) == Le(b.max.y, q.min.y)
BeforeMinY(q, b) == Le(q.max.y, b.min.y)

\* C8 as stated: a quad outside the bounds on an axis is emitted with
\* exactly zero width, or height, on that axis
C8_OutsideCollapsesToZero ==
    Converted =>
        LET q == Quad
            b == Bounds
        IN  /\ (BeyondMaxX(q, b) \/ BeforeMinX(q, b)) =>
                 instance.right_bottom[1] = instance.left_top[1]
            /\ (BeyondMaxY(q, b) \/ BeforeMinY(q, b)) =>
                 instance.left_top[2] = instance.right_bottom[2]

\* C8 as amended: a quad outside the bounds on an axis is emitted with
\* the edge that crossed moved onto the bounds' edge and the opposite
\* edge where it was, so its extent on that axis is zero when the quad
\* touches the bounds and negative (minus the gap) otherwise
C8_OutsideIsInverted ==
    Converted =>
        LET q == Quad
            b == Bounds
            o == OutQuad
        IN  /\ BeyondMaxX(q, b) =>
                 /\ instance.right_bottom[1] = b.max.x
                 /\ instance.left_top[1] = q.min.x
                 /\ Le(width(o), F(0))
                 /\ width(o) = F(0) <=> q.min.x = b.max.x
            /\ BeforeMinX(q, b) =>
                 /\ instance.left_top[1] = b.min.x
                 /\ instance.right_bottom[1] = q.max.x
                 /\ Le(width(o), F(0))
                 /\ width(o) = F(0) <=> q.max.x = b.min.x
            /\ BeyondMaxY(q, b) =>
                 /\ instance.left_top[2] = b.max.y
                 /\ instance.right_bottom[2] = q.min.y
                 /\ Le(height(o), F(0))
                 /\ height(o) = F(0) <=> q.min.y = b.max.y
            /\ BeforeMinY(q, b) =>
                 /\ instance.right_bottom[2] = b.min.y
                 /\ instance.left_top[2] = q.max.y
                 /\ Le(height(o), F(0))
                 /\ height(o) = F(0) <=> q.max.y = b.min.y

\* a quad a gap beyond the bounds' max-x edge, emitted with negative width
C8_Witness ==
    /\ Converted
    /\ Gt(Quad.min.x, Bounds.max.x)
    /\ Positive(width(Quad))
    /\ Lt(width(OutQuad), F(0))

\* the map that sends quad q onto the texture rectangle, per axis
TexAtX(q, x) ==
    Add(Tex.min.x, Div(Mul(Sub(x, q.min.x), width(Tex)), width(q)))
TexAtY(q, y) ==
    Add(Tex.min.y, Div(Mul(Sub(y, q.min.y), height(Tex)), height(q)))
Overlaps(q, b) ==
    /\ Le(q.min.x, b.max.x) /\ Le(b.min.x, q.max.x)
    /\ Le(q.min.y, b.max.y) /\ Le(b.min.y, q.max.y)

\* C10: for a quad of positive width and height that overlaps the bounds,
\* however many of its edges are clipped, the emitted texture rectangle
\* is the image of the emitted quad under the map that sends the given
\* quad onto the given texture rectangle
C10_TexIsAffineImage ==
    Converted =>
        LET q == Quad
            o == OutQuad
            t == OutTex
        IN  (Positive(width(q)) /\ Positive(height(q))
                /\ Overlaps(q, Bounds)) =>
                /\ t.min.x = TexAtX(q, o.min.x)
                /\ t.max.x = TexAtX(q, o.max.x)
                /\ t.min.y = TexAtY(q, o.min.y)
                /\ t.max.y = TexAtY(q, o.max.y)

\* a quad clipped on all four edges, part of it kept
C10_Witness ==
    /\ Converted
    /\ EdgesOver(Quad, Bounds) = 4
    /\ Positive(width(OutQuad))
    /\ Positive(height(OutQuad))

==========================================================================
